---- MODULE Spec2Model ----
(***************************************************************************)
(* A model of pacai/student/multiagents.py (MinimaxAgent, AlphaBetaAgent,  *)
(* ExpectimaxAgent, betterEvaluationFunction) and pacai/student/search.py  *)
(* (breadthFirstSearch and the unimplemented uniformCostSearch and         *)
(* aStarSearch).                                                           *)
(***************************************************************************)
EXTENDS Integers, Sequences, FiniteSets, TLC

\* ---------------------------------------------------------------- bounds
\* evaluation scores are drawn from 0..MaxEval
MaxEval == 2
\* board positions of the game are 0..NumPos-1
NumPos == 3
\* the search horizon: getTreeDepth() * getNumAgents() <= MaxPlies
MaxPlies == 4

\* the states of a search problem are 0..NumStates-1
NumStates == 3
\* the board of the evaluated game state is GridWidth x GridHeight
GridWidth == 3
GridHeight == 2
\* at most MaxGhosts ghosts and MaxFood food pellets on the board
MaxGhosts == 2
MaxFood == 2
\* getScore() is drawn from 0..MaxScore
MaxScore == 1

\* ------------------------------------------------------------- constants
\* cmath.inf; every evaluation score is strictly between -Inf and Inf
Inf == 1000000

STOP == "Stop"
None == "None"
\* the non-STOP part of pacai.core.directions.Directions the games use
Moves == <<"North", "East">>

VARIABLES
    \* the game and the agent's configuration
    evalTable,      \* position -> score given by self._evaluationFunction
    narrowPos,      \* the position with fewer moves (NumPos: there is none)
    narrowWidth,    \* the number of non-STOP moves at narrowPos: 0 or 1
    stopMode,       \* where getLegalActions lists STOP: "absent", "first", "last"
    numAgents,      \* gameState.getNumAgents()
    treeDepth,      \* self.getTreeDepth()
    out,            \* what the getAction call did and returned
    \* the search problem and the search
    edgeChoice,     \* state -> which of EdgeTemplates its successors follow
    goalState,      \* the state isGoal accepts (NumStates: there is none)
    pc,             \* "idle", "bfs" (in the while loop), "done"
    algorithm,      \* the search function called
    frontier,       \* queue.Queue of nodes, oldest first
    reached,        \* the list `reached`
    result,         \* what the search function returned or raised
    expansions,     \* state -> number of successorStates(state) calls
    \* the evaluated game state and its score
    evaluated,      \* the argument of betterEvaluationFunction
    evalOut         \* its return value

gameVars == <<evalTable, narrowPos, narrowWidth, stopMode, numAgents, treeDepth>>
problemVars == <<edgeChoice, goalState>>
searchVars == <<pc, algorithm, frontier, reached, result, expansions>>
evaluatorVars == <<evaluated, evalOut>>
vars == <<gameVars, out, problemVars, searchVars, evaluatorVars>>

Pos == 0 .. (NumPos - 1)

\* ------------------------------------------------------------ game state
\* A game state is a board position; the agent to move is the caller's.
\* getAction is called on the position RootState.
RootState == 0

ActionIndex(action) ==
    CASE action = "North" -> 1
      [] action = "East" -> 2
      [] OTHER -> 0

WithStop(actions) ==
    CASE stopMode = "first" -> <<STOP>> \o actions
      [] stopMode = "last" -> actions \o <<STOP>>
      [] OTHER -> actions

MovesAt(gameState) ==
    IF gameState = narrowPos THEN SubSeq(Moves, 1, narrowWidth) ELSE Moves

getLegalActions(gameState, agent) == WithStop(MovesAt(gameState))

generateSuccessor(gameState, agent, action) ==
    (2 * gameState + ActionIndex(action) + agent) % NumPos

getNumAgents == numAgents

getTreeDepth == treeDepth

evaluationFunction(gameState) == evalTable[gameState]

\* ---------------------------------------------------------------- search
\* The successors of a state, as offsets to the next state (modulo
\* NumStates); the i-th successor is reached by action Moves[i] at cost i.
EdgeTemplates ==
    << <<>>, <<1>>, <<1, 1>>, <<2, 1>>, <<0, 2>>, <<1, 2>> >>

SearchStates == 0 .. (NumStates - 1)

\* what a search function hands back: a list of actions, None, or a raised
\* NotImplementedError
Returned(actions) == [kind |-> "actions", actions |-> actions]
ReturnedNone == [kind |-> "None", actions |-> <<>>]
Raised == [kind |-> "NotImplementedError", actions |-> <<>>]
Pending == [kind |-> "pending", actions |-> <<>>]

startingState == 0

isGoal(state) == state = goalState

\* problem.successorStates(state): a list of (state, action, cost)
successorStates(state) ==
    LET offsets == EdgeTemplates[edgeChoice[state]]
    IN [i \in 1 .. Len(offsets) |->
           <<(state + offsets[i]) % NumStates, Moves[i], i>>]

\* frontier.pop() taking the newest node: a stack
StackPop(queue) ==
    [node |-> queue[Len(queue)], rest |-> SubSeq(queue, 1, Len(queue) - 1)]

\* frontier.pop() of queue.Queue: the oldest node (the sequence keeps the
\* queue oldest first)
QueuePop(queue) == [node |-> Head(queue), rest |-> Tail(queue)]

\* frontier.push(node)
QueuePush(queue, node) == Append(queue, node)

\* no state ever counts as reached
NeverReached(state, reachedList) == FALSE

\* `node[0] in reached`
InReached(state, reachedList) == \E i \in 1 .. Len(reachedList) : reachedList[i] = state

\* the for loop over `expand`: each child pushed with one more action
RECURSIVE PushChildren(_, _, _, _)
PushChildren(queue, node, expand, i) ==
    IF i > Len(expand) THEN queue
    ELSE PushChildren(QueuePush(queue, <<expand[i][1], Append(node[2], expand[i][2]), 0>>),
                      node, expand, i + 1)

\* breadthFirstSearch up to the while loop
BreadthFirstSearchCall ==
    /\ pc = "idle"
    /\ algorithm' = "breadthFirstSearch"
    /\ IF isGoal(startingState)
       THEN /\ result' = Returned(<<>>)
            /\ pc' = "done"
            /\ UNCHANGED <<frontier, reached>>
       ELSE /\ frontier' = QueuePush(<<>>, <<startingState, <<>>, 0>>)
            /\ reached' = <<>>
            /\ pc' = "bfs"
            /\ UNCHANGED result
    /\ UNCHANGED <<expansions, problemVars, gameVars, out, evaluatorVars>>

\* one turn of `while not frontier.isEmpty()`
BreadthFirstSearchLoop ==
    /\ pc = "bfs"
    /\ frontier # <<>>
    /\ LET popped == QueuePop(frontier)
           node == popped.node
       IN IF InReached(node[1], reached)
          THEN /\ frontier' = popped.rest
               /\ UNCHANGED <<pc, reached, result, expansions>>
          ELSE IF isGoal(node[1])
          THEN /\ result' = Returned(node[2])
               /\ pc' = "done"
               /\ frontier' = popped.rest
               /\ UNCHANGED <<reached, expansions>>
          ELSE /\ reached' = Append(reached, node[1])
               /\ expansions' = [expansions EXCEPT ![node[1]] = @ + 1]
               /\ frontier' = PushChildren(popped.rest, node, successorStates(node[1]), 1)
               /\ UNCHANGED <<pc, result>>
    /\ UNCHANGED <<algorithm, problemVars, gameVars, out, evaluatorVars>>

\* the frontier is empty: `return None`
BreadthFirstSearchFail ==
    /\ pc = "bfs"
    /\ frontier = <<>>
    /\ result' = ReturnedNone
    /\ pc' = "done"
    /\ UNCHANGED <<algorithm, frontier, reached, expansions,
                   problemVars, gameVars, out, evaluatorVars>>

\* uniformCostSearch: `raise NotImplementedError()`
UniformCostSearchCall ==
    /\ pc = "idle"
    /\ algorithm' = "uniformCostSearch"
    /\ result' = Raised
    /\ pc' = "done"
    /\ UNCHANGED <<frontier, reached, expansions, problemVars, gameVars, out, evaluatorVars>>

\* aStarSearch, whatever the heuristic: `raise NotImplementedError()`
AStarSearchCall ==
    /\ pc = "idle"
    /\ algorithm' = "aStarSearch"
    /\ result' = Raised
    /\ pc' = "done"
    /\ UNCHANGED <<frontier, reached, expansions, problemVars, gameVars, out, evaluatorVars>>

\* ------------------------------------------------------------- evaluator
GhostPenalty == -999999

Grid == (0 .. (GridWidth - 1)) \X (0 .. (GridHeight - 1))

\* pacai.core.distance.manhattan
manhattan(a, b) ==
    (IF a[1] >= b[1] THEN a[1] - b[1] ELSE b[1] - a[1])
    + (IF a[2] >= b[2] THEN a[2] - b[2] ELSE b[2] - a[2])

\* min(distances)
MinOf(distances) == CHOOSE d \in distances : \A e \in distances : d <= e

\* the game states handed to the evaluation function: Pacman's square holds
\* neither food nor a capsule
GameStates ==
    {g \in [position : Grid,
            ghosts : UNION {[1 .. n -> Grid] : n \in 0 .. MaxGhosts},
            food : {f \in SUBSET Grid : Cardinality(f) <= MaxFood},
            capsules : {c \in SUBSET Grid : Cardinality(c) <= 1},
            score : 0 .. MaxScore] :
        g.position \notin g.food \cup g.capsules}

betterEvaluationFunction(currentGameState) ==
    LET position == currentGameState.position
        ghostDistances == [i \in DOMAIN currentGameState.ghosts |->
                              manhattan(position, currentGameState.ghosts[i])]
        capsuleDistances == {manhattan(position, c) : c \in currentGameState.capsules}
        foodDistances == {manhattan(position, f) : f \in currentGameState.food}
        distances == IF capsuleDistances # {} THEN capsuleDistances ELSE foodDistances
    IN IF currentGameState.food = {} THEN currentGameState.score
       ELSE IF \E i \in DOMAIN ghostDistances : ghostDistances[i] < 1
       THEN currentGameState.score + GhostPenalty
       ELSE currentGameState.score + (-MinOf(distances))

NoState == [position |-> <<0, 0>>, ghosts |-> <<>>, food |-> {}, capsules |-> {}, score |-> 0]

NotEvaluated == [returned |-> FALSE, value |-> 0]

\* a call of betterEvaluationFunction on some game state
Evaluate ==
    /\ ~evalOut.returned
    /\ \E g \in GameStates :
           /\ evaluated' = g
           /\ evalOut' = [returned |-> TRUE, value |-> betterEvaluationFunction(g)]
    /\ UNCHANGED <<gameVars, out, problemVars, searchVars>>

\* ------------------------------------------------------- shared helpers
\* the legal actions left as they are
KeepStop(legalActions) == legalActions

\* `if Directions.STOP in legalActions: legalActions.remove(Directions.STOP)`:
\* list.remove drops the first occurrence.
RECURSIVE FirstIndex(_, _, _)
FirstIndex(s, x, i) ==
    IF i > Len(s) THEN 0
    ELSE IF s[i] = x THEN i
    ELSE FirstIndex(s, x, i + 1)

RemoveStop(legalActions) ==
    LET k == FirstIndex(legalActions, STOP, 1)
    IN IF k = 0 THEN legalActions
       ELSE SubSeq(legalActions, 1, k - 1) \o SubSeq(legalActions, k + 1, Len(legalActions))

\* `nextAgent = (agent + 1) % gameState.getNumAgents()`
NextAgent(agent) == (agent + 1) % getNumAgents

\* the depth grown at every move
NextDepthEveryMove(nextAgent, depth) == depth + 1

\* the depth handed to the recursive call: depth + 1 when the turn is back
\* at agent 0, depth otherwise
NextDepth(nextAgent, depth) == IF nextAgent = 0 THEN depth + 1 ELSE depth

\* `depth == self.getTreeDepth() or not legalActions`
IsLeaf(depth, legalActions) == depth = getTreeDepth \/ legalActions = <<>>

\* A call's record: the (value, action) pair it returns, and what it did on
\* the way: evals counts the calls of the evaluation function, gens holds
\* the actions handed to generateSuccessor, rets the actions returned as
\* best action by the call and the calls below it.
Leaf(gameState) ==
    [value |-> evaluationFunction(gameState), action |-> None,
     evals |-> 1, gens |-> {}, rets |-> {None}]

\* ---------------------------------------------------------- MinimaxAgent
RECURSIVE MinimaxMaxValue(_, _, _)
RECURSIVE MinimaxMinValue(_, _, _)
RECURSIVE MinimaxMaxLoop(_, _, _, _, _, _)
RECURSIVE MinimaxMinLoop(_, _, _, _, _, _)

\* `if value > bestValue:` of maxValue
MaxImproves(value, bestValue) == value > bestValue

\* `if value < bestValue:` of minValue
MinImproves(value, bestValue) == value < bestValue

\* the call made for one successor: maxValue one ply deeper when the turn
\* is back at Pacman, minValue at the same depth otherwise
MinimaxChild(successorGameState, nextAgent, depth) ==
    IF nextAgent = 0
    THEN MinimaxMaxValue(successorGameState, nextAgent, NextDepth(nextAgent, depth))
    ELSE MinimaxMinValue(successorGameState, nextAgent, NextDepth(nextAgent, depth))

\* the for loop of maxValue from legalActions[i] on; best holds bestValue,
\* bestAction and the record so far
MinimaxMaxLoop(gameState, agent, depth, legalActions, i, best) ==
    IF i > Len(legalActions) THEN best
    ELSE
        LET action == legalActions[i]
            r == MinimaxChild(generateSuccessor(gameState, agent, action),
                              NextAgent(agent), depth)
            better == MaxImproves(r.value, best.value)
        IN MinimaxMaxLoop(gameState, agent, depth, legalActions, i + 1,
               [value |-> IF better THEN r.value ELSE best.value,
                action |-> IF better THEN action ELSE best.action,
                evals |-> best.evals + r.evals,
                gens |-> best.gens \cup {action} \cup r.gens,
                rets |-> best.rets \cup r.rets])

MinimaxMaxValue(gameState, agent, depth) ==
    LET legalActions == RemoveStop(getLegalActions(gameState, agent))
    IN IF IsLeaf(depth, legalActions) THEN Leaf(gameState)
       ELSE LET r == MinimaxMaxLoop(gameState, agent, depth, legalActions, 1,
                         [value |-> -Inf, action |-> None,
                          evals |-> 0, gens |-> {}, rets |-> {}])
            IN [r EXCEPT !.rets = @ \cup {r.action}]

MinimaxMinLoop(gameState, agent, depth, legalActions, i, best) ==
    IF i > Len(legalActions) THEN best
    ELSE
        LET action == legalActions[i]
            r == MinimaxChild(generateSuccessor(gameState, agent, action),
                              NextAgent(agent), depth)
            better == MinImproves(r.value, best.value)
        IN MinimaxMinLoop(gameState, agent, depth, legalActions, i + 1,
               [value |-> IF better THEN r.value ELSE best.value,
                action |-> IF better THEN action ELSE best.action,
                evals |-> best.evals + r.evals,
                gens |-> best.gens \cup {action} \cup r.gens,
                rets |-> best.rets \cup r.rets])

MinimaxMinValue(gameState, agent, depth) ==
    LET legalActions == RemoveStop(getLegalActions(gameState, agent))
    IN IF IsLeaf(depth, legalActions) THEN Leaf(gameState)
       ELSE LET r == MinimaxMinLoop(gameState, agent, depth, legalActions, 1,
                         [value |-> Inf, action |-> None,
                          evals |-> 0, gens |-> {}, rets |-> {}])
            IN [r EXCEPT !.rets = @ \cup {r.action}]

\* -------------------------------------------------------- AlphaBetaAgent
RECURSIVE AlphaBetaMaxValue(_, _, _, _, _)
RECURSIVE AlphaBetaMinValue(_, _, _, _, _)
RECURSIVE AlphaBetaMaxLoop(_, _, _, _, _, _, _)
RECURSIVE AlphaBetaMinLoop(_, _, _, _, _, _, _)

Max2(a, b) == IF a >= b THEN a ELSE b
Min2(a, b) == IF a <= b THEN a ELSE b

\* `if value >= beta: return value, action` of maxValue
MaxCutoff(value, beta) == value >= beta

\* the maximizer's comparison used at a minimizing node
MinCutoffAsMax(value, alpha) == value >= alpha

\* a minimizing node that never cuts off
MinCutoffNever(value, alpha) == FALSE

\* `if value <= alpha: return value, action` of minValue
MinCutoff(value, alpha) == value <= alpha

AlphaBetaChild(successorGameState, nextAgent, depth, alpha, beta) ==
    IF nextAgent = 0
    THEN AlphaBetaMaxValue(successorGameState, nextAgent,
                           NextDepth(nextAgent, depth), alpha, beta)
    ELSE AlphaBetaMinValue(successorGameState, nextAgent,
                           NextDepth(nextAgent, depth), alpha, beta)

\* the for loop of maxValue from legalActions[i] on; best holds bestValue,
\* bestAction, the running alpha and the record so far
AlphaBetaMaxLoop(gameState, agent, depth, beta, legalActions, i, best) ==
    IF i > Len(legalActions) THEN best
    ELSE
        LET action == legalActions[i]
            r == AlphaBetaChild(generateSuccessor(gameState, agent, action),
                                NextAgent(agent), depth, best.bound, beta)
            better == MaxImproves(r.value, best.value)
            seen == [value |-> IF better THEN r.value ELSE best.value,
                     action |-> IF better THEN action ELSE best.action,
                     bound |-> IF better THEN Max2(best.bound, r.value) ELSE best.bound,
                     evals |-> best.evals + r.evals,
                     gens |-> best.gens \cup {action} \cup r.gens,
                     rets |-> best.rets \cup r.rets]
        IN IF MaxCutoff(r.value, beta)
           THEN [seen EXCEPT !.value = r.value, !.action = action]
           ELSE AlphaBetaMaxLoop(gameState, agent, depth, beta, legalActions, i + 1, seen)

AlphaBetaMaxValue(gameState, agent, depth, alpha, beta) ==
    LET legalActions == RemoveStop(getLegalActions(gameState, agent))
    IN IF IsLeaf(depth, legalActions) THEN Leaf(gameState)
       ELSE LET r == AlphaBetaMaxLoop(gameState, agent, depth, beta, legalActions, 1,
                         [value |-> -Inf, action |-> None, bound |-> alpha,
                          evals |-> 0, gens |-> {}, rets |-> {}])
            IN [value |-> r.value, action |-> r.action, evals |-> r.evals,
                gens |-> r.gens, rets |-> r.rets \cup {r.action}]

\* the for loop of minValue from legalActions[i] on; best.bound is the
\* running beta
AlphaBetaMinLoop(gameState, agent, depth, alpha, legalActions, i, best) ==
    IF i > Len(legalActions) THEN best
    ELSE
        LET action == legalActions[i]
            r == AlphaBetaChild(generateSuccessor(gameState, agent, action),
                                NextAgent(agent), depth, alpha, best.bound)
            better == MinImproves(r.value, best.value)
            seen == [value |-> IF better THEN r.value ELSE best.value,
                     action |-> IF better THEN action ELSE best.action,
                     bound |-> IF better THEN Min2(best.bound, r.value) ELSE best.bound,
                     evals |-> best.evals + r.evals,
                     gens |-> best.gens \cup {action} \cup r.gens,
                     rets |-> best.rets \cup r.rets]
        IN IF MinCutoff(r.value, alpha)
           THEN [seen EXCEPT !.value = r.value, !.action = action]
           ELSE AlphaBetaMinLoop(gameState, agent, depth, alpha, legalActions, i + 1, seen)

AlphaBetaMinValue(gameState, agent, depth, alpha, beta) ==
    LET legalActions == RemoveStop(getLegalActions(gameState, agent))
    IN IF IsLeaf(depth, legalActions) THEN Leaf(gameState)
       ELSE LET r == AlphaBetaMinLoop(gameState, agent, depth, alpha, legalActions, 1,
                         [value |-> Inf, action |-> None, bound |-> beta,
                          evals |-> 0, gens |-> {}, rets |-> {}])
            IN [value |-> r.value, action |-> r.action, evals |-> r.evals,
                gens |-> r.gens, rets |-> r.rets \cup {r.action}]

\* ------------------------------------------------------- ExpectimaxAgent
\* Expectimax values are quotients of integers: a value is kept as the
\* fraction num/den in lowest terms, den > 0.
RECURSIVE Gcd(_, _)
Gcd(a, b) == IF b = 0 THEN a ELSE Gcd(b, a % b)

Abs(n) == IF n < 0 THEN -n ELSE n

Frac(n, d) ==
    LET g == Gcd(Abs(n), d)
    IN [num |-> n \div g, den |-> d \div g]

FracOf(n) == [num |-> n, den |-> 1]

FracAdd(a, b) == Frac(a.num * b.den + b.num * a.den, a.den * b.den)

FracGreater(a, b) == a.num * b.den > b.num * a.den

\* `sum(values)`
RECURSIVE FracSum(_, _)
FracSum(values, i) ==
    IF i > Len(values) THEN FracOf(0)
    ELSE FracAdd(values[i], FracSum(values, i + 1))

\* `max(values)`
RECURSIVE FracMax(_, _)
FracMax(values, i) ==
    IF i = Len(values) THEN values[i]
    ELSE LET rest == FracMax(values, i + 1)
         IN IF FracGreater(rest, values[i]) THEN rest ELSE values[i]

\* the sum left undivided
ExpectedValueUndivided(values, legalActions) == FracSum(values, 1)

\* `float(sum(values)) / float(len(legalActions))`
ExpectedValue(values, legalActions) ==
    LET total == FracSum(values, 1)
    IN Frac(total.num, total.den * Len(legalActions))

RECURSIVE ExpectimaxValue(_, _, _)
RECURSIVE ExpectimaxValues(_, _, _, _, _, _)

\* the for loop of expectimaxValue from legalActions[i] on; seen.values is
\* the list `values`
ExpectimaxValues(gameState, agent, depth, legalActions, i, seen) ==
    IF i > Len(legalActions) THEN seen
    ELSE
        LET action == legalActions[i]
            nextAgent == NextAgent(agent)
            r == ExpectimaxValue(generateSuccessor(gameState, agent, action),
                                 nextAgent, NextDepth(nextAgent, depth))
        IN ExpectimaxValues(gameState, agent, depth, legalActions, i + 1,
               [values |-> Append(seen.values, r.value),
                evals |-> seen.evals + r.evals,
                gens |-> seen.gens \cup {action} \cup r.gens])

ExpectimaxValue(gameState, agent, depth) ==
    LET legalActions == RemoveStop(getLegalActions(gameState, agent))
    IN IF IsLeaf(depth, legalActions)
       THEN [value |-> FracOf(evaluationFunction(gameState)), evals |-> 1, gens |-> {}]
       ELSE LET seen == ExpectimaxValues(gameState, agent, depth, legalActions, 1,
                            [values |-> <<>>, evals |-> 0, gens |-> {}])
            IN [value |-> IF agent = 0 THEN FracMax(seen.values, 1)
                          ELSE ExpectedValue(seen.values, legalActions),
                evals |-> seen.evals, gens |-> seen.gens]

\* `if expectedValue > bestValue:` of getAction
ExpectedImproves(expectedValue, bestValue) == FracGreater(expectedValue, bestValue)

\* the for loop of ExpectimaxAgent.getAction from legalActions[i] on
RECURSIVE ExpectimaxRootLoop(_, _, _, _)
ExpectimaxRootLoop(gameState, legalActions, i, best) ==
    IF i > Len(legalActions) THEN best
    ELSE
        LET action == legalActions[i]
            r == ExpectimaxValue(generateSuccessor(gameState, 0, action), 1, 0)
            better == ExpectedImproves(r.value, best.value)
        IN ExpectimaxRootLoop(gameState, legalActions, i + 1,
               [value |-> IF better THEN r.value ELSE best.value,
                action |-> IF better THEN action ELSE best.action,
                evals |-> best.evals + r.evals,
                gens |-> best.gens \cup {action} \cup r.gens,
                rets |-> {}])

\* ExpectimaxAgent.getAction up to its return
ExpectimaxRoot(gameState) ==
    LET legalActions == RemoveStop(getLegalActions(gameState, 0))
    IN IF legalActions = <<>>
       THEN [value |-> FracOf(-Inf), action |-> STOP,
             evals |-> 0, gens |-> {}, rets |-> {STOP}]
       ELSE LET r == ExpectimaxRootLoop(gameState, legalActions, 1,
                         [value |-> FracOf(-Inf), action |-> None,
                          evals |-> 0, gens |-> {}, rets |-> {}])
            IN [r EXCEPT !.rets = {r.action}]

\* ------------------------------------------------------- getAction calls
\* the record of a getAction call of the named agent class on gameState
Called(agent, gameState, r) ==
    [agent |-> agent, root |-> gameState, value |-> r.value, action |-> r.action,
     evals |-> r.evals, gens |-> r.gens, rets |-> r.rets]

NoCall == [agent |-> "none", root |-> 0, value |-> 0, action |-> None,
           evals |-> 0, gens |-> {}, rets |-> {}]

\* MinimaxAgent.getAction: `_, action = self.maxValue(gameState, 0, 0)`
MinimaxGetAction ==
    /\ out.agent = "none"
    /\ out' = Called("Minimax", RootState, MinimaxMaxValue(RootState, 0, 0))
    /\ UNCHANGED <<gameVars, problemVars, searchVars, evaluatorVars>>

\* AlphaBetaAgent.getAction: `self.maxValue(gameState, 0, 0, -inf, inf)`
AlphaBetaGetAction ==
    /\ out.agent = "none"
    /\ out' = Called("AlphaBeta", RootState,
                      AlphaBetaMaxValue(RootState, 0, 0, -Inf, Inf))
    /\ UNCHANGED <<gameVars, problemVars, searchVars, evaluatorVars>>

ExpectimaxGetAction ==
    /\ out.agent = "none"
    /\ out' = Called("Expectimax", RootState, ExpectimaxRoot(RootState))
    /\ UNCHANGED <<gameVars, problemVars, searchVars, evaluatorVars>>

\* -------------------------------------------------------- specifications
\* no game: the state of the agents while a search or an evaluation runs
IdleGame ==
    /\ evalTable = [p \in Pos |-> 0]
    /\ narrowPos = NumPos
    /\ narrowWidth = 0
    /\ stopMode = "absent"
    /\ numAgents = 2
    /\ treeDepth = 0
    /\ out = NoCall

\* no search problem
IdleProblem ==
    /\ edgeChoice = [s \in SearchStates |-> 1]
    /\ goalState = NumStates

\* no search running
IdleSearch ==
    /\ pc = "idle"
    /\ algorithm = "none"
    /\ frontier = <<>>
    /\ reached = <<>>
    /\ result = Pending
    /\ expansions = [s \in SearchStates |-> 0]

\* no evaluation running
IdleEvaluator ==
    /\ evaluated = NoState
    /\ evalOut = NotEvaluated

\* the agents' configurations: numAgents and treeDepth within the horizon
Horizons ==
    {h \in (2 .. MaxPlies) \X (0 .. MaxPlies) : h[1] * h[2] <= MaxPlies}

\* the adversarial agents, each called once on a game
InitGame ==
    /\ IdleProblem
    /\ IdleSearch
    /\ IdleEvaluator
    /\ evalTable \in [Pos -> 0 .. MaxEval]
    /\ narrowPos \in 0 .. NumPos
    /\ narrowWidth \in IF narrowPos = NumPos THEN {0} ELSE {0, 1}
    /\ stopMode \in {"absent", "first", "last"}
    /\ \E h \in Horizons : numAgents = h[1] /\ treeDepth = h[2]
    /\ out = NoCall

NextGame == MinimaxGetAction \/ AlphaBetaGetAction \/ ExpectimaxGetAction

SpecGame == InitGame /\ [][NextGame]_vars

\* the graph search functions, each called once on a search problem
InitSearch ==
    /\ IdleGame
    /\ IdleEvaluator
    /\ IdleSearch
    /\ edgeChoice \in [SearchStates -> 1 .. Len(EdgeTemplates)]
    /\ goalState \in 0 .. NumStates

NextSearch ==
    \/ BreadthFirstSearchCall
    \/ BreadthFirstSearchLoop
    \/ BreadthFirstSearchFail
    \/ UniformCostSearchCall
    \/ AStarSearchCall

SpecSearch == InitSearch /\ [][NextSearch]_vars

\* a called function runs on until it returns
SpecSearchFair == SpecSearch /\ WF_vars(NextSearch)

\* the evaluation function, called on one game state after another
InitEvaluator ==
    /\ IdleGame
    /\ IdleProblem
    /\ IdleSearch
    /\ IdleEvaluator

NextEvaluator == Evaluate

SpecEvaluator == InitEvaluator /\ [][NextEvaluator]_vars

\* ------------------------------------------- depth-limited minimax value
\* The minimax value as the specification defines it: agent 0 maximizes,
\* the others minimize, the turn passes to (agent + 1) mod numAgents, the
\* depth grows when the turn wraps to agent 0, and a node is a leaf when
\* depth = maxDepth or the agent to move has no non-STOP legal action.
SetMax(S) == CHOOSE x \in S : \A y \in S : y <= x
SetMin(S) == CHOOSE x \in S : \A y \in S : x <= y

Range(s) == {s[i] : i \in 1 .. Len(s)}

Branches(gameState, agent) == Range(getLegalActions(gameState, agent)) \ {STOP}

TurnAfter(agent) == IF agent + 1 = numAgents THEN 0 ELSE agent + 1

DepthAfter(agent, depth) == IF agent + 1 = numAgents THEN depth + 1 ELSE depth

RECURSIVE MinimaxOf(_, _, _)
MinimaxOf(gameState, agent, depth) ==
    IF depth = treeDepth \/ Branches(gameState, agent) = {}
    THEN evalTable[gameState]
    ELSE LET below == {MinimaxOf(generateSuccessor(gameState, agent, a),
                                 TurnAfter(agent), DepthAfter(agent, depth)) :
                          a \in Branches(gameState, agent)}
         IN IF agent = 0 THEN SetMax(below) ELSE SetMin(below)

\* the minimax value of taking root action a
RootActionValue(gameState, a) ==
    MinimaxOf(generateSuccessor(gameState, 0, a), TurnAfter(0), DepthAfter(0, 0))

\* agent 0's root actions in enumeration order, STOP removed
RootActions(gameState) ==
    SelectSeq(getLegalActions(gameState, 0), LAMBDA a : a # STOP)

RootIsLeaf(gameState) == treeDepth = 0 \/ RootActions(gameState) = <<>>

NoRootTies(gameState) ==
    \A i, j \in 1 .. Len(RootActions(gameState)) :
        i # j => RootActionValue(gameState, RootActions(gameState)[i])
                   # RootActionValue(gameState, RootActions(gameState)[j])

\* C1: alpha-beta and minimax compute the same root value on every game,
\* and the same action whenever no two root actions have equal minimax value.
C1_AlphaBetaEqualsMinimax ==
    out.agent = "AlphaBeta" =>
        LET m == MinimaxMaxValue(out.root, 0, 0)
        IN /\ out.value = m.value
           /\ out.value = MinimaxOf(out.root, 0, 0)
           /\ NoRootTies(out.root) => out.action = m.action

\* a call of alpha-beta that pruned, on a two-ply-deep search with two
\* root actions of different value
C1_Witness ==
    /\ out.agent = "AlphaBeta"
    /\ treeDepth = 2
    /\ Len(RootActions(out.root)) = 2
    /\ NoRootTies(out.root)
    /\ out.action = "East"
    /\ out.evals < MinimaxMaxValue(out.root, 0, 0).evals

\* C3: MinimaxAgent.getAction returns the first action, in enumeration
\* order with STOP removed, whose depth-limited minimax value is the maximum
\* over agent 0's actions (and None when the root itself is a leaf).
C3_MinimaxFirstBest ==
    out.agent = "Minimax" =>
        IF RootIsLeaf(out.root)
        THEN out.action = None /\ out.value = evalTable[out.root]
        ELSE LET acts == RootActions(out.root)
                 top == SetMax({RootActionValue(out.root, acts[i]) : i \in 1 .. Len(acts)})
             IN /\ out.value = top
                /\ \E i \in 1 .. Len(acts) :
                       /\ out.action = acts[i]
                       /\ RootActionValue(out.root, acts[i]) = top
                       /\ \A j \in 1 .. (i - 1) : RootActionValue(out.root, acts[j]) # top

\* maxDepth = 1, one ghost, two Pacman actions, the second subtree worth more
C3_Witness ==
    /\ out.agent = "Minimax"
    /\ treeDepth = 1
    /\ numAgents = 2
    /\ RootActions(out.root) = <<"North", "East">>
    /\ RootActionValue(out.root, "North") < RootActionValue(out.root, "East")
    /\ out.action = "East"

\* the leaf reached by Pacman's action a and then the ghost's action b
LeafAfter(gameState, a, b) ==
    evalTable[generateSuccessor(generateSuccessor(gameState, 0, a), 1, b)]

\* two agents, maxDepth = 1, two non-STOP actions for Pacman and for the
\* ghost after either of them
TwoByTwo(gameState) ==
    /\ numAgents = 2
    /\ treeDepth = 1
    /\ RootActions(gameState) = <<"North", "East">>
    /\ \A a \in {"North", "East"} :
           Branches(generateSuccessor(gameState, 0, a), 1) = {"North", "East"}

\* the first leaf under Pacman's second action is at most the minimum of
\* the two leaves under the first action
SecondDominated(gameState) ==
    /\ TwoByTwo(gameState)
    /\ LeafAfter(gameState, "East", "North") <= LeafAfter(gameState, "North", "North")
    /\ LeafAfter(gameState, "East", "North") <= LeafAfter(gameState, "North", "East")

\* C4: alpha-beta never calls the evaluation function more often than
\* minimax on the same game, and on the two-by-two tree whose second branch
\* is dominated it evaluates 3 leaves where minimax evaluates 4.
C4_AlphaBetaEvaluatesFewer ==
    out.agent = "AlphaBeta" =>
        LET m == MinimaxMaxValue(out.root, 0, 0)
        IN /\ out.evals <= m.evals
           /\ SecondDominated(out.root) => out.evals = 3 /\ m.evals = 4

C4_Witness ==
    /\ out.agent = "AlphaBeta"
    /\ SecondDominated(out.root)
    /\ out.evals = 3

\* The expectimax value as the specification defines it, times scale:
\* the maximum of the successors' values at agent 0's turn, their sum
\* divided by their count at another agent's turn.  scale is a multiple of
\* every count met below.
RECURSIVE SumOver(_, _, _, _, _)
RECURSIVE ExpectimaxOf(_, _, _, _)

SumOver(gameState, agent, depth, share, actions) ==
    IF actions = {} THEN 0
    ELSE LET a == CHOOSE x \in actions : TRUE
         IN ExpectimaxOf(generateSuccessor(gameState, agent, a),
                         TurnAfter(agent), DepthAfter(agent, depth), share)
            + SumOver(gameState, agent, depth, share, actions \ {a})

ExpectimaxOf(gameState, agent, depth, scale) ==
    LET acts == Branches(gameState, agent)
    IN IF depth = treeDepth \/ acts = {} THEN evalTable[gameState] * scale
       ELSE IF agent = 0
       THEN SetMax({ExpectimaxOf(generateSuccessor(gameState, agent, a),
                                 TurnAfter(agent), DepthAfter(agent, depth), scale) :
                       a \in acts})
       ELSE SumOver(gameState, agent, depth, scale \div Cardinality(acts), acts)

RECURSIVE Power(_, _)
Power(b, n) == IF n = 0 THEN 1 ELSE b * Power(b, n - 1)

RECURSIVE Factorial(_)
Factorial(n) == IF n = 0 THEN 1 ELSE n * Factorial(n - 1)

\* a multiple of every product of branch counts along a path of the search
Scale == Power(Factorial(Len(Moves)), MaxPlies)

\* the expectimax value of taking root action a, times Scale
RootExpectation(gameState, a) ==
    ExpectimaxOf(generateSuccessor(gameState, 0, a), TurnAfter(0), 0, Scale)

\* C5: ExpectimaxAgent.getAction returns the first agent-0 action (STOP
\* removed) whose expectimax value is maximal, chance nodes being worth the
\* arithmetic mean of their successors; with one ghost, two actions each and
\* maxDepth = 1 that value is the larger of the two means of two leaves.
C5_ExpectimaxFirstBest ==
    (out.agent = "Expectimax" /\ RootActions(out.root) # <<>>) =>
        LET acts == RootActions(out.root)
            top == SetMax({RootExpectation(out.root, acts[i]) : i \in 1 .. Len(acts)})
        IN /\ out.value.num * Scale = top * out.value.den
           /\ \E i \in 1 .. Len(acts) :
                  /\ out.action = acts[i]
                  /\ RootExpectation(out.root, acts[i]) = top
                  /\ \A j \in 1 .. (i - 1) : RootExpectation(out.root, acts[j]) # top
           /\ TwoByTwo(out.root) =>
                  out.value.num * 2 = out.value.den *
                      SetMax({LeafAfter(out.root, a, "North") + LeafAfter(out.root, a, "East") :
                                 a \in {"North", "East"}})

\* one ghost, two actions each, maxDepth = 1, a mean that is no integer
C5_Witness ==
    /\ out.agent = "Expectimax"
    /\ TwoByTwo(out.root)
    /\ out.action = "East"
    /\ out.value.den = 2

\* C6: on a game state in which agent 0 has no legal action, getAction of
\* each of the three agents returns Directions.STOP.
C6_NoLegalActionReturnsStop ==
    (out.agent # "none" /\ getLegalActions(out.root, 0) = <<>>) => out.action = STOP

\* C10: generateSuccessor is never called with STOP, no call returns STOP as
\* its best action when the agent to move has a non-STOP legal action, and a
\* node whose only legal action is STOP is scored by the evaluation function:
\* a root offering STOP alone costs one evaluation, and the value found is
\* the one of the tree in which every such node is a leaf.
C10_StopNeverExplored ==
    out.agent # "none" =>
        /\ STOP \notin out.gens
        /\ RootActions(out.root) # <<>> => STOP \notin out.rets
        /\ (out.agent # "Expectimax" /\ getLegalActions(out.root, 0) = <<STOP>>) =>
               /\ out.value = evalTable[out.root]
               /\ out.evals = 1
               /\ out.gens = {}
        /\ out.agent # "Expectimax" => out.value = MinimaxOf(out.root, 0, 0)
        /\ (out.agent = "Expectimax" /\ RootActions(out.root) # <<>>) =>
               out.value.num * Scale = out.value.den *
                   SetMax({RootExpectation(out.root, a) : a \in Branches(out.root, 0)})

\* STOP is listed first everywhere, a position offers STOP alone, and the
\* search went through it two plies deep
C10_Witness ==
    /\ out.agent = "Expectimax"
    /\ stopMode = "first"
    /\ narrowPos # NumPos /\ narrowPos # out.root /\ narrowWidth = 0
    /\ treeDepth = 2
    /\ out.gens = {"North", "East"}
    /\ out.action = "East"

\* ------------------------------------------------------- search problems
\* the states reachable from the start by at most k actions
Successors(state) == {successorStates(state)[i] : i \in DOMAIN successorStates(state)}

RECURSIVE Within(_)
Within(k) ==
    IF k = 0 THEN {startingState}
    ELSE Within(k - 1) \cup {e[1] : e \in UNION {Successors(s) : s \in Within(k - 1)}}

GoalReachable == \E s \in Within(NumStates) : isGoal(s)

\* the fewest actions from the start to a goal
Distance == CHOOSE k \in 0 .. NumStates :
                /\ \E s \in Within(k) : isGoal(s)
                /\ \A j \in 0 .. (k - 1) : \A s \in Within(j) : ~isGoal(s)

\* the state the actions lead to from state (NumStates: nowhere, an action
\* is not a successor's) and what they cost
RECURSIVE Follow(_, _)
Follow(state, actions) ==
    IF actions = <<>> \/ state = NumStates THEN state
    ELSE LET edges == {e \in Successors(state) : e[2] = Head(actions)}
         IN IF edges = {} THEN NumStates
            ELSE Follow((CHOOSE e \in edges : TRUE)[1], Tail(actions))

RECURSIVE PathCost(_, _)
PathCost(state, actions) ==
    IF actions = <<>> THEN 0
    ELSE LET e == CHOOSE x \in Successors(state) : x[2] = Head(actions)
         IN e[3] + PathCost(e[1], Tail(actions))

\* the least cost of a path of at most k actions from state to a goal (Inf:
\* there is none)
RECURSIVE CheapestWithin(_, _)
CheapestWithin(state, k) ==
    IF isGoal(state) THEN 0
    ELSE IF k = 0 THEN Inf
    ELSE LET costs == {e[3] + CheapestWithin(e[1], k - 1) : e \in Successors(state)}
         IN IF costs = {} THEN Inf
            ELSE Min2(Inf, CHOOSE c \in costs : \A d \in costs : c <= d)

\* C2: when a goal is reachable, breadthFirstSearch returns actions that lead
\* from the start to a goal, as few as any path to a goal has, and the empty
\* list when the start is a goal.
C2_BreadthFirstShortest ==
    (pc = "done" /\ algorithm = "breadthFirstSearch" /\ GoalReachable) =>
        /\ result.kind = "actions"
        /\ isGoal(Follow(startingState, result.actions))
        /\ Len(result.actions) = Distance
        /\ isGoal(startingState) => result.actions = <<>>

\* a goal two actions away, found after two expansions
C2_Witness ==
    /\ pc = "done"
    /\ algorithm = "breadthFirstSearch"
    /\ Len(result.actions) = 2
    /\ Len(reached) = 2

\* C7: with a goal reachable, uniformCostSearch and aStarSearch return a
\* path of the least total cost.
C7_LeastCostPath ==
    (pc = "done" /\ algorithm \in {"uniformCostSearch", "aStarSearch"} /\ GoalReachable) =>
        /\ result.kind = "actions"
        /\ isGoal(Follow(startingState, result.actions))
        /\ PathCost(startingState, result.actions) = CheapestWithin(startingState, NumStates)

\* C9: with no goal reachable breadthFirstSearch terminates and returns None,
\* and in any run each state is expanded at most once.
C9_BreadthFirstTerminates ==
    /\ [](algorithm = "breadthFirstSearch" =>
            /\ \A s \in SearchStates : expansions[s] <= 1
            /\ (pc = "done" /\ ~GoalReachable) => result = ReturnedNone)
    /\ (pc = "bfs" /\ ~GoalReachable) ~> (pc = "done" /\ result = ReturnedNone)

\* no goal, two edges from the start to the same state, every state on a
\* cycle and expanded: the search ended with None
C9_Witness ==
    /\ pc = "done"
    /\ algorithm = "breadthFirstSearch"
    /\ goalState = NumStates
    /\ EdgeTemplates[edgeChoice[startingState]] = <<1, 1>>
    /\ \A s \in SearchStates : expansions[s] = 1
    /\ result = ReturnedNone

\* ------------------------------------------------------------- evaluator
GhostWithinOne(g) == \E i \in DOMAIN g.ghosts : manhattan(g.position, g.ghosts[i]) <= 1

\* the state with the same score, no ghost, no capsule, and food on square
FoodOnlyAt(g, square) ==
    [g EXCEPT !.ghosts = <<>>, !.capsules = {}, !.food = {square}]

\* C8: with food left and a ghost within Manhattan distance 1 of Pacman,
\* betterEvaluationFunction returns getScore() + (-999999); with a single
\* ghost at distance exactly 1 that is less than the score of any state with
\* the same raw score, no ghost near and food adjacent.
C8_GhostWithinOnePenalized ==
    (evalOut.returned /\ evaluated.food # {} /\ GhostWithinOne(evaluated)) =>
        /\ evalOut.value = evaluated.score + GhostPenalty
        /\ \A square \in Grid :
               manhattan(evaluated.position, square) = 1 =>
                   evalOut.value < betterEvaluationFunction(FoodOnlyAt(evaluated, square))
====
